---- MODULE Spec2Model ----
(***************************************************************************)
(* Capture synchronisation of main_scraper (src/main.py).                  *)
(*                                                                         *)
(* One event loop runs the orchestrator coroutines (main_scraper) and one  *)
(* task per listener invocation (handle_response_inner).  Code between two *)
(* awaits runs without interruption, so every action below is the          *)
(* completion of one await together with all the code up to the next one.  *)
(***************************************************************************)
EXTENDS Integers, Sequences, FiniteSets, TLC

\* ------------------------------------------------------------------ bounds
\* Number of network responses the pages produce in all, in the
\* one-operation and in the two-operation specification.
MaxResponses == 2
MaxResponsesPair == 2

\* ------------------------------------------------------------ the scenario
AllOps == {1, 2}

\* Operations of the one-operation and of the two-operation specification.
OpsSingle == {1}
OpsPair == {1, 2}

\* target_url of each operation (two different fragments).
TargetUrl(o) == IF o = 1 THEN <<"x">> ELSE <<"y">>

\* URLs, methods and bodies of the responses a page can produce.
Urls == { <<"a", "x">>, <<"a", "X">>, <<"y", "b">>, <<"y", "x">>, <<"a">> }
Methods == {"POST", "GET"}
Bodies == { <<"0">>, <<"null">>, <<"[", "1", "]", " ">>, <<"<", " ">> }
BodiesPair == { <<"[", "1", "]", " ">>, <<"<", " ">> }

\* How an await of the navigation can end: it returns, it raises
\* PlaywrightTimeoutError, it raises another exception.  The navigations
\* of the two interleaved operations return.
NavOutcomes == {"ok", "timeout", "error"}
NavOutcomesPair == {"ok"}

\* --------------------------------------------------------- Python values
\* A Python value held in the result slot: None, an int, a list of ints, or
\* one of the two error dicts the listener builds.
PyNone == [t |-> "None", v |-> <<>>, error |-> "", raw_text |-> <<>>]
PyInt(n) == [t |-> "int", v |-> <<n>>, error |-> "", raw_text |-> <<>>]
PyList(s) == [t |-> "list", v |-> s, error |-> "", raw_text |-> <<>>]

\* {"error": str(e), "raw_text": text_data}
ErrorRawTruncated(e, text) ==
    [t |-> "dict_error_raw_text", v |-> <<>>, error |-> e,
     raw_text |-> IF Len(text) > 1 THEN SubSeq(text, 1, 1) ELSE text]
ErrorRaw(e, text) ==
    [t |-> "dict_error_raw_text", v |-> <<>>, error |-> e, raw_text |-> text]

\* {"error": str(e_text)}
ErrorOnly(e) == [t |-> "dict_error", v |-> <<>>, error |-> e, raw_text |-> <<>>]

\* str() of the exceptions the listener catches.
JsonErrorMsg == "JSONDecodeError"
TextErrorMsg == "TextReadError"
HeadersErrorMsg == "HeadersError"

\* ------------------------------------------------------------- json()
RECURSIVE RemoveSpaces(_)
RemoveSpaces(s) ==
    IF s = <<>> THEN <<>>
    ELSE IF Head(s) = " " THEN RemoveSpaces(Tail(s))
    ELSE <<Head(s)>> \o RemoveSpaces(Tail(s))

Digit(c) == IF c = "0" THEN 0 ELSE 1
IsDigit(c) == c \in {"0", "1"}

\* The elements between the brackets: digit ("," digit)*, or nothing.
IsElements(s) ==
    \/ s = <<>>
    \/ /\ Len(s) % 2 = 1
       /\ \A i \in 1..Len(s) : IF i % 2 = 1 THEN IsDigit(s[i]) ELSE s[i] = ","

Elements(s) == [i \in 1..((Len(s) + 1) \div 2) |-> Digit(s[2 * i - 1])]

\* response.json(): the body text parsed as JSON (insignificant white space
\* is skipped).  ok = FALSE stands for the exception json() raises.
JsonLoads(text) ==
    LET s == RemoveSpaces(text) IN
    IF s = <<"null">> THEN [ok |-> TRUE, val |-> PyNone]
    ELSE IF Len(s) = 1 /\ IsDigit(s[1]) THEN [ok |-> TRUE, val |-> PyInt(Digit(s[1]))]
    ELSE IF Len(s) >= 2 /\ s[1] = "[" /\ s[Len(s)] = "]" /\ IsElements(SubSeq(s, 2, Len(s) - 1))
         THEN [ok |-> TRUE, val |-> PyList(Elements(SubSeq(s, 2, Len(s) - 1)))]
    ELSE [ok |-> FALSE, val |-> PyNone]

\* response.text(): the body text as it came off the wire.
ResponseText(body) == body

\* ------------------------------------------------------ match predicate
\* Python's `sub in s` on strings.
Contains(sub, s) ==
    \E i \in 0..(Len(s) - Len(sub)) : SubSeq(s, i + 1, i + Len(sub)) = sub

\* The spec's predicate: method POST and the fragment a literal substring.
SpecMatch(url, method, fragment) == method = "POST" /\ Contains(fragment, url)

IsTargetPostAnyMethod(target_url, url, method) == Contains(target_url, url)
IsTargetPostAnyUrl(target_url, url, method) == method = "POST"
IsTargetPostEither(target_url, url, method) == Contains(target_url, url) \/ method = "POST"
IsTargetPost(target_url, url, method) == Contains(target_url, url) /\ method = "POST"

\* ------------------------------------------------------------------ state
VARIABLES
    browser_instance,  \* the global browser handle is initialised
    pc,                \* where each main_scraper call is suspended
    context,           \* each operation's context: "none", "open", "closed"
    page,              \* each operation's page:    "none", "open", "closed"
    listeners,         \* page -> operations whose listener is registered on it
    nresp,             \* page -> responses the page has produced so far
    holder,            \* _local_captured_post_data_holder["data"] (and who wrote it)
    event,             \* _local_capture_event.is_set()
    handlers,          \* the listener invocations of each operation, in call order
    result,            \* what main_scraper returned (and whose payload it is)
    exitPath,          \* which path ended the operation
    closeCalls,        \* how often page.close() and context.close() were called
    closeFailed,       \* which of the two close calls raised
    signalSrc,         \* the response whose listener invocation set the event
    navOutcome,        \* how navigation ended: "none", "ok", "timeout", "error"
    status             \* what trigger_scrape_endpoint answered

vars == <<browser_instance, pc, context, page, listeners, nresp, holder, event,
          handlers, result, exitPath, closeCalls, closeFailed, signalSrc,
          navOutcome, status>>

\* History value: the response a payload was extracted from.
NoSrc == [page |-> 0, rid |-> 0]
Src(p, r) == [page |-> p, rid |-> r]

\* ------------------------------------------- trigger_scrape_endpoint
\* Python's truth value of a payload: None, 0 and the empty list are false,
\* the error dicts (never empty) are true.
Truthy(val) ==
    CASE val.t = "None" -> FALSE
      [] val.t = "int" -> val.v[1] # 0
      [] val.t = "list" -> Len(val.v) > 0
      [] OTHER -> TRUE

\* No answer yet; the answers of the endpoint: the data with status 200,
\* the HTTPException 404, and the HTTPException 503 main_scraper raises.
NoStatus == [code |-> 0, body |-> PyNone]
NotReadyStatus == [code |-> 503, body |-> PyNone]
EndpointStatus(data) ==
    IF Truthy(data) THEN [code |-> 200, body |-> data]
    ELSE [code |-> 404, body |-> PyNone]

Init ==
    /\ browser_instance = FALSE
    /\ pc = [o \in AllOps |-> "idle"]
    /\ context = [o \in AllOps |-> "none"]
    /\ page = [o \in AllOps |-> "none"]
    /\ listeners = [p \in AllOps |-> {}]
    /\ nresp = [p \in AllOps |-> 0]
    /\ holder = [o \in AllOps |-> [data |-> PyNone, src |-> NoSrc]]
    /\ event = [o \in AllOps |-> FALSE]
    /\ handlers = [o \in AllOps |-> <<>>]
    /\ result = [o \in AllOps |-> [val |-> PyNone, src |-> NoSrc]]
    /\ exitPath = [o \in AllOps |-> "none"]
    /\ closeCalls = [o \in AllOps |-> [page |-> 0, context |-> 0]]
    /\ closeFailed = [o \in AllOps |-> [page |-> FALSE, context |-> FALSE]]
    /\ signalSrc = [o \in AllOps |-> NoSrc]
    /\ navOutcome = [o \in AllOps |-> "none"]
    /\ status = [o \in AllOps |-> NoStatus]

\* ------------------------------------------------------------- lifespan
LifespanStartup ==
    /\ ~browser_instance
    /\ browser_instance' = TRUE
    /\ UNCHANGED <<pc, context, page, listeners, nresp, holder, event, handlers,
                   result, exitPath, closeCalls, closeFailed, signalSrc,
                   navOutcome, status>>

\* ------------------------------------------------------- main_scraper
\* The closure variables a listener of operation o writes and the call o
\* reads: locals of that call.
HolderShared(o) == CHOOSE g \in AllOps : \A x \in AllOps : g <= x
HolderOf(o) == o

\* page.on("response", handle_response_inner) is called on the page this
\* call created.
ListenPage(o) == o

\* The finally block up to its first await: page.close() is called when the
\* page exists and is not closed, else context.close() when the context
\* exists, else the call is over.
FinallyPcContextWithPage(pg, ctx) ==
    IF pg = "open" THEN "page_close" ELSE "done"
FinallyPc(pg, ctx) ==
    IF pg = "open" THEN "page_close"
    ELSE IF ctx # "none" THEN "context_close"
    ELSE "done"

\* A return (or the outer except) followed by the finally block; when the
\* block has nothing to close the call is over and the endpoint answers.
Finish(o, val, src, path, pg, ctx) ==
    /\ result' = [result EXCEPT ![o] = [val |-> val, src |-> src]]
    /\ exitPath' = [exitPath EXCEPT ![o] = path]
    /\ pc' = [pc EXCEPT ![o] = FinallyPc(pg, ctx)]
    /\ closeCalls' = [closeCalls EXCEPT ![o] =
          IF FinallyPc(pg, ctx) = "page_close" THEN [@ EXCEPT !.page = @ + 1]
          ELSE IF FinallyPc(pg, ctx) = "context_close" THEN [@ EXCEPT !.context = @ + 1]
          ELSE @]
    /\ status' = [status EXCEPT ![o] =
          IF FinallyPc(pg, ctx) = "done" THEN EndpointStatus(val) ELSE @]

\* `if not browser_instance`
NotReadyNever(b) == FALSE
NotReady(b) == ~b

\* main_scraper is called: the readiness check (HTTPException 503 when it
\* fails), then new_context() is awaited.
Start(o) ==
    /\ pc[o] = "idle"
    /\ IF NotReady(browser_instance)
       THEN /\ pc' = [pc EXCEPT ![o] = "not_ready"]
            /\ exitPath' = [exitPath EXCEPT ![o] = "not_ready"]
            /\ status' = [status EXCEPT ![o] = NotReadyStatus]
       ELSE /\ pc' = [pc EXCEPT ![o] = "new_context"]
            /\ UNCHANGED <<exitPath, status>>
    /\ UNCHANGED <<browser_instance, context, page, listeners, nresp, holder, event,
                   handlers, result, closeCalls, closeFailed, signalSrc, navOutcome>>

\* new_context() returns or raises (it raises when there is no browser).
NewContextDone(o) ==
    /\ pc[o] = "new_context"
    /\ \E ok \in BOOLEAN :
         /\ ok => browser_instance
         /\ IF ok
            THEN /\ context' = [context EXCEPT ![o] = "open"]
                 /\ pc' = [pc EXCEPT ![o] = "new_page"]
                 /\ UNCHANGED <<result, exitPath, closeCalls, status>>
            ELSE /\ Finish(o, PyNone, NoSrc, "unexpected", page[o], context[o])
                 /\ UNCHANGED context
    /\ UNCHANGED <<browser_instance, page, listeners, nresp, holder, event, handlers,
                   closeFailed, signalSrc, navOutcome>>

\* new_page() returns or raises; on return the listener is registered and
\* goto() is awaited.
NewPageDone(o) ==
    /\ pc[o] = "new_page"
    /\ \E ok \in BOOLEAN :
         IF ok
         THEN /\ page' = [page EXCEPT ![o] = "open"]
              /\ listeners' = [listeners EXCEPT ![ListenPage(o)] = @ \cup {o}]
              /\ pc' = [pc EXCEPT ![o] = "goto"]
              /\ UNCHANGED <<result, exitPath, closeCalls, status>>
         ELSE /\ Finish(o, PyNone, NoSrc, "unexpected", page[o], context[o])
              /\ UNCHANGED <<page, listeners>>
    /\ UNCHANGED <<browser_instance, context, nresp, holder, event, handlers,
                   closeFailed, signalSrc, navOutcome>>

\* Which navigation failures end the call: PlaywrightTimeoutError is logged
\* and passed over, any other exception returns None.
NavFatalNever(outcome) == FALSE
NavFatalAlsoTimeout(outcome) == outcome \in {"error", "timeout"}
NavFatal(outcome) == outcome = "error"

\* goto() returns, times out, or raises another error.
GotoDone(o, outcomes) ==
    /\ pc[o] = "goto"
    /\ \E outcome \in outcomes :
         /\ navOutcome' = [navOutcome EXCEPT ![o] = IF outcome = "ok" THEN @ ELSE outcome]
         /\ IF NavFatal(outcome)
            THEN Finish(o, PyNone, NoSrc, "nav_fatal", page[o], context[o])
            ELSE /\ pc' = [pc EXCEPT ![o] = IF outcome = "ok" THEN "settle" ELSE "wait"]
                 /\ UNCHANGED <<result, exitPath, closeCalls, status>>
    /\ UNCHANGED <<browser_instance, context, page, listeners, nresp, holder, event,
                   handlers, closeFailed, signalSrc>>

\* wait_for_timeout(1000) returns, times out, or raises another error.
SettleDone(o, outcomes) ==
    /\ pc[o] = "settle"
    /\ \E outcome \in outcomes :
         /\ navOutcome' = [navOutcome EXCEPT ![o] = outcome]
         /\ IF NavFatal(outcome)
            THEN Finish(o, PyNone, NoSrc, "nav_fatal", page[o], context[o])
            ELSE /\ pc' = [pc EXCEPT ![o] = "wait"]
                 /\ UNCHANGED <<result, exitPath, closeCalls, status>>
    /\ UNCHANGED <<browser_instance, context, page, listeners, nresp, holder, event,
                   handlers, closeFailed, signalSrc>>

\* The value main_scraper returns after the capture wait.
WaitOutcomeNoneOnTimeout(d, timedOut) == IF timedOut THEN PyNone ELSE d
WaitOutcome(d, timedOut) == d

\* wait_for() is over when the event is set or the 10 seconds have passed.
WaitOverAnyTime(timedOut, isSet) == TRUE
WaitOver(timedOut, isSet) == timedOut \/ isSet

\* wait_for(event.wait(), 10.0) returns because the event is set, or raises
\* TimeoutError; either way the slot is returned.
WaitDone(o) ==
    /\ pc[o] = "wait"
    /\ \E timedOut \in BOOLEAN :
         /\ WaitOver(timedOut, event[HolderOf(o)])
         /\ Finish(o, WaitOutcome(holder[HolderOf(o)].data, timedOut),
                   IF WaitOutcome(holder[HolderOf(o)].data, timedOut) = holder[HolderOf(o)].data
                   THEN holder[HolderOf(o)].src ELSE NoSrc,
                   IF timedOut THEN "deadline" ELSE "signal", page[o], context[o])
    /\ UNCHANGED <<browser_instance, context, page, listeners, nresp, holder, event,
                   handlers, closeFailed, signalSrc, navOutcome>>

\* What the finally block does after page.close(): context.close() is in a
\* try of its own, so it is called whether or not page.close() raised.
AfterPageCloseOnlyIfOk(ok, ctx) == IF ok /\ ctx # "none" THEN "context_close" ELSE "done"
AfterPageClose(ok, ctx) == IF ctx # "none" THEN "context_close" ELSE "done"

\* What the endpoint gets from the call: the value the return statement
\* evaluated, not what the slot holds when the cleanup is over.
EndpointDataFromSlot(res, slot) == slot.data
EndpointData(res, slot) == res.val

\* page.close() returns or raises; then context.close() is awaited.
PageCloseDone(o) ==
    /\ pc[o] = "page_close"
    /\ \E ok \in BOOLEAN :
         /\ page' = [page EXCEPT ![o] = IF ok THEN "closed" ELSE @]
         /\ closeFailed' = [closeFailed EXCEPT ![o].page = ~ok]
         /\ pc' = [pc EXCEPT ![o] = AfterPageClose(ok, context[o])]
         /\ IF AfterPageClose(ok, context[o]) = "context_close"
            THEN /\ closeCalls' = [closeCalls EXCEPT ![o].context = @ + 1]
                 /\ UNCHANGED status
            ELSE /\ status' = [status EXCEPT ![o] =
                       EndpointStatus(EndpointData(result[o], holder[HolderOf(o)]))]
                 /\ UNCHANGED closeCalls
    /\ UNCHANGED <<browser_instance, context, listeners, nresp, holder, event, handlers,
                   result, exitPath, signalSrc, navOutcome>>

\* context.close() returns or raises; a context that closes closes its page.
\* The call is over and the endpoint answers.
ContextCloseDone(o) ==
    /\ pc[o] = "context_close"
    /\ \E ok \in BOOLEAN :
         IF ok
         THEN /\ context' = [context EXCEPT ![o] = "closed"]
              /\ page' = [page EXCEPT ![o] = IF @ = "open" THEN "closed" ELSE @]
              /\ UNCHANGED closeFailed
         ELSE /\ closeFailed' = [closeFailed EXCEPT ![o].context = TRUE]
              /\ UNCHANGED <<context, page>>
    /\ pc' = [pc EXCEPT ![o] = "done"]
    /\ status' = [status EXCEPT ![o] =
          EndpointStatus(EndpointData(result[o], holder[HolderOf(o)]))]
    /\ UNCHANGED <<browser_instance, listeners, nresp, holder, event, handlers,
                   result, exitPath, closeCalls, signalSrc, navOutcome>>

\* The page closes by itself (window.close(), a crash) while the call is
\* suspended in navigation or in the capture wait.
PageSelfClose(o) ==
    /\ pc[o] \in {"goto", "settle", "wait"}
    /\ page[o] = "open"
    /\ page' = [page EXCEPT ![o] = "closed"]
    /\ UNCHANGED <<browser_instance, pc, context, listeners, nresp, holder, event,
                   handlers, result, exitPath, closeCalls, closeFailed, signalSrc,
                   navOutcome, status>>

\* ---------------------------------------------- handle_response_inner
TotalResponses == nresp[1] + nresp[2]

\* The body of a response that has not been read yet.
NoBody == <<>>

\* The page p produces a response: every listener registered on p is called
\* with it.  A call that finds is_target_post awaits response.json(); any
\* other call returns at once.  The body is what json() will read.
Deliver(p, max) ==
    /\ page[p] = "open"
    /\ listeners[p] # {}
    /\ TotalResponses < max
    /\ \E url \in Urls, method \in Methods :
         /\ nresp' = [nresp EXCEPT ![p] = @ + 1]
         /\ handlers' = [o \in AllOps |->
              IF o \in listeners[p] /\ IsTargetPost(TargetUrl(o), url, method)
              THEN Append(handlers[o],
                          [src |-> Src(p, nresp[p] + 1),
                           m |-> SpecMatch(url, method, TargetUrl(o)),
                           pc |-> "json", body |-> NoBody])
              ELSE handlers[o]]
    /\ UNCHANGED <<browser_instance, pc, context, page, listeners, holder, event,
                   result, exitPath, closeCalls, closeFailed, signalSrc, navOutcome, status>>

SetHandlerPc(o, i, newpc) == [handlers EXCEPT ![o][i].pc = newpc]
SetHandler(o, i, newpc, body) == [handlers EXCEPT ![o][i].pc = newpc, ![o][i].body = body]

\* _local_captured_post_data_holder["data"] = val
StoreNothing(o, val, src) == holder
Store(o, val, src) == [holder EXCEPT ![HolderOf(o)] = [data |-> val, src |-> src]]

\* _local_capture_event.set() is reached only after json() has returned and
\* the value is stored; the except path leaves the event as it is.
EventAfterJsonAlways(ev, parsed) == TRUE
EventAfterJson(ev, parsed) == ev \/ parsed

\* response.json() returns (the value is stored and the event set) or raises
\* (response.text() is awaited).
JsonDone(o, i, bodies) ==
    /\ i \in 1..Len(handlers[o])
    /\ handlers[o][i].pc = "json"
    /\ \E body \in bodies :
         LET h == handlers[o][i]
             r == JsonLoads(body)
             ev == EventAfterJson(event[HolderOf(o)], r.ok)
         IN /\ IF r.ok
               THEN /\ holder' = Store(o, r.val, h.src)
                    /\ handlers' = SetHandler(o, i, "done_json", body)
               ELSE /\ handlers' = SetHandler(o, i, "text", body)
                    /\ UNCHANGED holder
            /\ event' = [event EXCEPT ![HolderOf(o)] = ev]
            /\ signalSrc' = [signalSrc EXCEPT ![HolderOf(o)] =
                                IF ev /\ ~event[HolderOf(o)] THEN h.src ELSE @]
    /\ UNCHANGED <<browser_instance, pc, context, page, listeners, nresp, result,
                   exitPath, closeCalls, closeFailed, navOutcome, status>>

\* The finally of the fallback: `pass`; the event stays as it is.
FinallyEventSet(ev) == TRUE
FinallyEvent(ev) == ev

\* The event and who set it after the fallback of invocation h is over.
AfterFallback(o, h) ==
    /\ event' = [event EXCEPT ![HolderOf(o)] = FinallyEvent(@)]
    /\ signalSrc' = [signalSrc EXCEPT ![HolderOf(o)] =
          IF FinallyEvent(event[HolderOf(o)]) /\ ~event[HolderOf(o)] THEN h.src ELSE @]

\* response.text() returns (the error dict with the raw text is stored and
\* request.all_headers() is awaited) or raises (the inner except stores the
\* message alone).
TextDone(o, i) ==
    /\ i \in 1..Len(handlers[o])
    /\ handlers[o][i].pc = "text"
    /\ LET h == handlers[o][i] IN
       \E ok \in BOOLEAN :
         IF ok
         THEN /\ holder' = Store(o, ErrorRaw(JsonErrorMsg, ResponseText(h.body)), h.src)
              /\ handlers' = SetHandlerPc(o, i, "headers")
              /\ UNCHANGED <<event, signalSrc>>
         ELSE /\ holder' = Store(o, ErrorOnly(TextErrorMsg), h.src)
              /\ handlers' = SetHandlerPc(o, i, "done_text_error")
              /\ AfterFallback(o, h)
    /\ UNCHANGED <<browser_instance, pc, context, page, listeners, nresp, result,
                   exitPath, closeCalls, closeFailed, navOutcome, status>>

\* request.all_headers() returns (the headers are printed) or raises (the
\* same inner except stores the message alone).
HeadersDone(o, i) ==
    /\ i \in 1..Len(handlers[o])
    /\ handlers[o][i].pc = "headers"
    /\ LET h == handlers[o][i] IN
       /\ \E ok \in BOOLEAN :
            IF ok
            THEN /\ handlers' = SetHandlerPc(o, i, "done_raw")
                 /\ UNCHANGED holder
            ELSE /\ holder' = Store(o, ErrorOnly(HeadersErrorMsg), h.src)
                 /\ handlers' = SetHandlerPc(o, i, "done_headers_error")
       /\ AfterFallback(o, h)
    /\ UNCHANGED <<browser_instance, pc, context, page, listeners, nresp, result,
                   exitPath, closeCalls, closeFailed, navOutcome, status>>

\* ------------------------------------------------------ specifications
\* One scrape operation.
Next ==
    \/ LifespanStartup
    \/ \E o \in OpsSingle : Start(o)
    \/ \E o \in OpsSingle : NewContextDone(o)
    \/ \E o \in OpsSingle : NewPageDone(o)
    \/ \E o \in OpsSingle : GotoDone(o, NavOutcomes)
    \/ \E o \in OpsSingle : SettleDone(o, NavOutcomes)
    \/ \E o \in OpsSingle : WaitDone(o)
    \/ \E o \in OpsSingle : PageCloseDone(o)
    \/ \E o \in OpsSingle : ContextCloseDone(o)
    \/ \E o \in OpsSingle : PageSelfClose(o)
    \/ \E p \in OpsSingle : Deliver(p, MaxResponses)
    \/ \E o \in OpsSingle : \E i \in 1..MaxResponses : JsonDone(o, i, Bodies)
    \/ \E o \in OpsSingle : \E i \in 1..MaxResponses : TextDone(o, i)
    \/ \E o \in OpsSingle : \E i \in 1..MaxResponses : HeadersDone(o, i)

Spec == Init /\ [][Next]_vars

\* Two scrape operations interleaved on the shared browser handle.
NextPair ==
    \/ LifespanStartup
    \/ \E o \in OpsPair : Start(o)
    \/ \E o \in OpsPair : NewContextDone(o)
    \/ \E o \in OpsPair : NewPageDone(o)
    \/ \E o \in OpsPair : GotoDone(o, NavOutcomesPair)
    \/ \E o \in OpsPair : SettleDone(o, NavOutcomesPair)
    \/ \E o \in OpsPair : WaitDone(o)
    \/ \E o \in OpsPair : PageCloseDone(o)
    \/ \E o \in OpsPair : ContextCloseDone(o)
    \/ \E p \in OpsPair : Deliver(p, MaxResponsesPair)
    \/ \E o \in OpsPair : \E i \in 1..MaxResponsesPair : JsonDone(o, i, BodiesPair)
    \/ \E o \in OpsPair : \E i \in 1..MaxResponsesPair : TextDone(o, i)
    \/ \E o \in OpsPair : \E i \in 1..MaxResponsesPair : HeadersDone(o, i)

SpecPair == Init /\ [][NextPair]_vars

\* ------------------------------------------------------------ properties
\* The listener invocations of o for responses that satisfy the predicate.
Matching(o) == {i \in 1..Len(handlers[o]) : handlers[o][i].m}

\* The payloads named by the specification, written out.
RawPayload(body) ==
    [t |-> "dict_error_raw_text", v |-> <<>>, error |-> "JSONDecodeError", raw_text |-> body]
MsgPayload(msg) == [t |-> "dict_error", v |-> <<>>, error |-> msg, raw_text |-> <<>>]

\* The payloads a listener invocation has written to the slot so far.
Written(h) ==
    CASE h.pc = "done_json" -> {JsonLoads(h.body).val}
      [] h.pc \in {"headers", "done_raw"} -> {RawPayload(h.body)}
      [] h.pc = "done_text_error" -> {MsgPayload("TextReadError")}
      [] h.pc = "done_headers_error" -> {RawPayload(h.body), MsgPayload("HeadersError")}
      [] OTHER -> {}

\* The call has returned through the capture wait.
ThroughWait(o) == exitPath[o] \in {"signal", "deadline"}

\* The step in which the call o leaves the capture wait and reads the slot.
LeavesWait(o) == pc[o] = "wait" /\ pc'[o] # "wait"

\* C1 (as stated): when two responses of one operation both satisfy the
\* predicate, the returned value comes from the first of them, never from
\* the second.
C1_FirstMatchWins ==
    \A o \in AllOps :
        (Len(handlers[o]) >= 2 /\ handlers[o][1].m /\ handlers[o][2].m)
            => result[o].src # handlers[o][2].src

\* C1 (amended): the returned value is the whole payload of one matching
\* response, the one whose extraction wrote the slot last before the call
\* left the capture wait; with two matching responses that can be the second.
C1_LastWriteReturned ==
    /\ [](\A o \in AllOps :
            result[o].src # NoSrc =>
                \E i \in Matching(o) :
                    /\ handlers[o][i].src = result[o].src
                    /\ result[o].val \in Written(handlers[o][i]))
    /\ [][\A o \in AllOps :
            LeavesWait(o) => result'[o] = [val |-> holder[o].data, src |-> holder[o].src]]_vars

C1_Witness ==
    \E o \in AllOps :
        /\ pc[o] = "done"
        /\ Len(handlers[o]) >= 2 /\ handlers[o][1].m /\ handlers[o][2].m
        /\ handlers[o][1].pc = "done_json"
        /\ result[o].src = handlers[o][2].src

\* C2 (as stated): once the slot holds a payload, no step replaces it.
C2_WriteOnce ==
    [][\A o \in AllOps : holder[o].src # NoSrc => holder'[o] = holder[o]]_vars

\* C2 (amended): the slot is replaced only by an extraction write of a
\* listener invocation of the same operation for a matching response, with a
\* payload of that response; a later such write does replace an earlier one.
C2_OnlyExtractionWrites ==
    [][\A o \in AllOps :
         holder'[o] # holder[o] =>
             \E i \in Matching(o) :
                 /\ handlers'[o][i].pc # handlers[o][i].pc
                 /\ holder'[o].src = handlers[o][i].src
                 /\ handlers[o][i].src.page = o
                 /\ holder'[o].data \in Written(handlers'[o][i])]_vars

C2_Witness ==
    \E o \in AllOps :
        /\ Len(handlers[o]) >= 2
        /\ Written(handlers[o][1]) # {}
        /\ Written(handlers[o][2]) # {}
        /\ holder[o].src = handlers[o][2].src
        /\ holder[o].data # JsonLoads(handlers[o][1].body).val

\* C3: with two operations interleaved on the shared browser, the slot, the
\* signal and the returned value of an operation only ever come from
\* responses of that operation's own page.
C3_Isolation ==
    \A o \in AllOps :
        /\ holder[o].src.page \in {0, o}
        /\ signalSrc[o].page \in {0, o}
        /\ result[o].src.page \in {0, o}
        /\ \A i \in 1..Len(handlers[o]) : handlers[o][i].src.page = o
        /\ event[o] => \E i \in Matching(o) : handlers[o][i].pc = "done_json"

C3_Witness ==
    /\ pc[1] = "done" /\ pc[2] = "done"
    /\ result[1].src.page = 1 /\ result[2].src.page = 2
    /\ result[1].val # result[2].val

\* C4 (as stated): no terminal state leaves a page or a context of the
\* operation open.
C4_NothingLeftOpen ==
    \A o \in AllOps : pc[o] = "done" => (page[o] # "open" /\ context[o] # "open")

\* Each close is called at most once, the page's close is called when the
\* page is still open at the end and the context's close whenever there is a
\* context; a resource still open at the terminal step is one whose own
\* close raised.
C4_Released(o) ==
    /\ closeCalls[o].page <= 1 /\ closeCalls[o].context <= 1
    /\ pc[o] = "done" =>
         /\ context[o] # "none" => closeCalls[o].context = 1
         /\ context[o] = "open" => closeFailed[o].context
         /\ page[o] = "open" =>
              (closeCalls[o].page = 1 /\ closeFailed[o].page /\ closeFailed[o].context)
         /\ closeFailed[o].page => closeCalls[o].page = 1

\* C4 (amended): on every exit path the call ends with each resource it
\* acquired having had its close called exactly once (the page's unless the
\* page was already closed), and a resource is left open only if that close
\* call itself failed; a call that acquired a context reaches its end.
C4_ReleaseAttemptedOnce ==
    /\ [](\A o \in AllOps : C4_Released(o))
    /\ \A o \in OpsSingle : (context[o] # "none") ~> (pc[o] = "done")

C4_Witness ==
    \E o \in AllOps :
        /\ pc[o] = "done"
        /\ exitPath[o] = "unexpected"
        /\ context[o] = "closed" /\ page[o] = "none"
        /\ closeCalls[o] = [page |-> 0, context |-> 1]

\* The step in which the call o returns (or its except handler runs).
Returns(o) == exitPath[o] = "none" /\ exitPath'[o] \notin {"none", "not_ready"}

\* C5 (as stated): whenever the call returns and the one response that
\* matched has had its well-formed body parsed, be that during navigation or
\* during the capture wait, the call returns the parsed body.
C5_SingleJsonAlwaysReturned ==
    [][\A o \in AllOps :
         (Returns(o) /\ Len(handlers[o]) = 1 /\ handlers[o][1].m
            /\ handlers[o][1].pc = "done_json")
             => result'[o].val = JsonLoads(handlers[o][1].body).val]_vars

\* C5 (amended): when the call leaves the capture wait and the only matching
\* response so far has had its body parsed, the call returns that parsed
\* value (by signal or by deadline).
C5_SingleJsonReturnedFromWait ==
    [][\A o \in AllOps :
         (LeavesWait(o) /\ Len(handlers[o]) = 1 /\ handlers[o][1].m
            /\ handlers[o][1].pc = "done_json")
             => /\ result'[o].val = JsonLoads(handlers[o][1].body).val
                /\ result'[o].src = handlers[o][1].src]_vars

C5_Witness ==
    \E o \in AllOps :
        /\ pc[o] = "done" /\ ThroughWait(o)
        /\ Len(handlers[o]) = 1 /\ handlers[o][1].pc = "done_json"
        /\ result[o].src = handlers[o][1].src
        /\ result[o].val = [t |-> "list", v |-> <<1>>, error |-> "", raw_text |-> <<>>]

\* C6: while no response has matched, the signal is not set, so a call whose
\* navigation was not fatal leaves the capture wait only by the deadline, and
\* it returns None.
C6_NoMatchNoneAtDeadline ==
    \A o \in AllOps :
        Matching(o) = {} =>
            /\ ~event[o]
            /\ exitPath[o] # "signal"
            /\ (pc[o] \in {"page_close", "context_close", "done"}
                  /\ exitPath[o] \notin {"nav_fatal", "unexpected"})
                 => (exitPath[o] = "deadline" /\ result[o].val = PyNone /\ result[o].src = NoSrc)

C6_Witness ==
    \E o \in AllOps :
        /\ pc[o] = "done" /\ exitPath[o] = "deadline"
        /\ handlers[o] = <<>> /\ nresp[o] >= 1

\* C7: when the call leaves the capture wait and the only matching response
\* failed parsing and had its raw text read, the call returns the error
\* payload whose raw_text is the body text.
C7_RawTextRoundTrip ==
    [][\A o \in AllOps :
         (LeavesWait(o) /\ Len(handlers[o]) = 1 /\ handlers[o][1].m
            /\ handlers[o][1].pc \in {"headers", "done_raw", "done_headers_error"})
             => result'[o].val = RawPayload(handlers[o][1].body)]_vars

\* C8: a listener invocation whose header read failed after the raw text was
\* read leaves in the slot the parse-error message together with the raw text.
C8_HeaderFailureKeepsPayload ==
    \A o \in AllOps : \A i \in 1..Len(handlers[o]) :
        (handlers[o][i].pc = "done_headers_error" /\ holder[o].src = handlers[o][i].src)
            => holder[o].data = RawPayload(handlers[o][i].body)

\* C9: a call that leaves the capture wait by the deadline returns what the
\* slot holds at that moment.
C9_DeadlineReturnsSlot ==
    [][\A o \in AllOps :
         (LeavesWait(o) /\ exitPath'[o] = "deadline")
             => result'[o] = [val |-> holder[o].data, src |-> holder[o].src]]_vars

C9_Witness ==
    \E o \in AllOps :
        /\ exitPath[o] = "deadline"
        /\ result[o].src # NoSrc
        /\ result[o].val = RawPayload(<<"<", " ">>)

\* C10 (as stated): whenever the signal is set the slot holds the payload of
\* the match that set it, and a call woken by the signal returns a payload,
\* never the empty slot.
C10_SignalledSlotIsSignallers ==
    \A o \in AllOps :
        /\ event[o] => holder[o].src = signalSrc[o]
        /\ exitPath[o] = "signal" => result[o].val # PyNone

\* C10 (amended): whenever the signal is set, the invocation that set it has
\* already written its parsed value and the slot holds a value written by
\* an extraction (that one or a later one); a call woken by the signal
\* returns such a written value, which is None when the body was JSON null.
C10_SignalAfterWrite ==
    \A o \in AllOps :
        /\ event[o] =>
             /\ holder[o].src # NoSrc
             /\ \E i \in Matching(o) :
                    handlers[o][i].src = signalSrc[o] /\ handlers[o][i].pc = "done_json"
             /\ \E i \in Matching(o) :
                    handlers[o][i].src = holder[o].src /\ holder[o].data \in Written(handlers[o][i])
        /\ ~event[o] => signalSrc[o] = NoSrc
        /\ exitPath[o] = "signal" => (event[o] /\ result[o].src # NoSrc)

C10_Witness ==
    \E o \in AllOps :
        /\ exitPath[o] = "signal"
        /\ result[o].src # signalSrc[o]
        /\ result[o].val # PyNone

\* The call o is in, or past, the finally block.
InCleanup(o) == pc[o] \in {"page_close", "context_close", "done"}

\* C11 (as stated): after a hard navigation error the call never is in the
\* capture wait, returns None, and ends with its page and context released.
C11_FatalNavigationReleases ==
    \A o \in AllOps :
        navOutcome[o] = "error" =>
            /\ InCleanup(o)
            /\ result[o].val = PyNone
            /\ pc[o] = "done" => (page[o] # "open" /\ context[o] # "open")

\* C11 (amended): once navigation has ended with a hard error the call is in its
\* cleanup with None as the value to return, whatever the slot holds; it
\* never is in the capture wait, and the cleanup closes what was acquired.
C11_FatalNavigationAborts ==
    \A o \in AllOps :
        navOutcome[o] = "error" =>
            /\ InCleanup(o)
            /\ exitPath[o] = "nav_fatal"
            /\ result[o] = [val |-> PyNone, src |-> NoSrc]
            /\ C4_Released(o)
            /\ pc[o] = "done" => status[o].code = 404

C11_Witness ==
    \E o \in AllOps :
        /\ navOutcome[o] = "error" /\ pc[o] = "done"
        /\ holder[o].src # NoSrc /\ holder[o].data # PyNone
        /\ context[o] = "closed" /\ page[o] = "closed"

\* C12: once navigation has ended with a timeout the call is in the capture
\* wait or has left it through the signal or the deadline, never through the
\* fatal path; and when it leaves the wait with a payload in the slot
\* (captured before the timeout or during the wait) it returns that payload.
C12_NavigationTimeoutProceeds ==
    /\ [](\A o \in AllOps :
            navOutcome[o] = "timeout" =>
                \/ pc[o] = "wait" /\ exitPath[o] = "none"
                \/ InCleanup(o) /\ ThroughWait(o))
    /\ [][\A o \in AllOps :
            (LeavesWait(o) /\ navOutcome[o] = "timeout" /\ holder[o].src # NoSrc)
                => result'[o] = [val |-> holder[o].data, src |-> holder[o].src]]_vars

C12_Witness ==
    \E o \in AllOps :
        /\ navOutcome[o] = "timeout" /\ pc[o] = "done"
        /\ result[o].src # NoSrc
        /\ status[o] = [code |-> 200, body |-> result[o].val]

\* C13: a call that finds the browser handle not initialised raises the
\* service-not-ready condition in that same step, having created no
\* context and no page and registered no listener; nothing else changes.
C13_FailFastWhenNotReady ==
    /\ [](\A o \in AllOps :
            exitPath[o] = "not_ready" =>
                /\ pc[o] = "not_ready" /\ status[o].code = 503
                /\ context[o] = "none" /\ page[o] = "none"
                /\ \A p \in AllOps : o \notin listeners[p]
                /\ handlers[o] = <<>> /\ ~event[o]
                /\ holder[o] = [data |-> PyNone, src |-> NoSrc]
                /\ closeCalls[o] = [page |-> 0, context |-> 0])
    /\ [][\A o \in AllOps :
            (pc[o] = "idle" /\ pc'[o] # "idle" /\ ~browser_instance)
                => /\ pc'[o] = "not_ready" /\ exitPath'[o] = "not_ready"
                   /\ UNCHANGED <<browser_instance, context, page, listeners, nresp,
                                  holder, event, handlers, result, closeCalls,
                                  closeFailed, signalSrc, navOutcome>>]_vars

C13_Witness ==
    \E o \in AllOps :
        /\ pc[o] = "not_ready" /\ exitPath[o] = "not_ready"
        /\ status[o] = [code |-> 503, body |-> PyNone]
        /\ context[o] = "none"

\* C14: when page.close() has raised, context.close() is called all the
\* same; neither close changes the value the call returns, and the call ends
\* with the endpoint answering from that value.
C14_CloseFailuresTolerated ==
    /\ [](\A o \in AllOps :
            /\ closeFailed[o].page => (closeCalls[o].context = 1 /\ pc[o] \in {"context_close", "done"})
            /\ pc[o] = "done" =>
                 status[o] = (IF Truthy(result[o].val)
                              THEN [code |-> 200, body |-> result[o].val]
                              ELSE [code |-> 404, body |-> PyNone]))
    /\ [][\A o \in AllOps :
            pc[o] \in {"page_close", "context_close"} =>
                (result'[o] = result[o] /\ exitPath'[o] = exitPath[o]
                   /\ pc'[o] \in {pc[o], "context_close", "done"})]_vars

C14_Witness ==
    \E o \in AllOps :
        /\ pc[o] = "done"
        /\ closeFailed[o].page /\ closeFailed[o].context
        /\ result[o].src # NoSrc
        /\ status[o].code = 200

\* The steps of an await's completion at which a listener invocation ends.
HandlerDone == {"done_json", "done_raw", "done_text_error", "done_headers_error"}

\* C15: the endpoint answers with an error status only for a call that was
\* not ready or returned None, and a call that returns any payload is
\* answered with that payload and status 200 (stated for the calls whose
\* cleanup closed the page and the context without a failure).
C15_StatusMapping ==
    \A o \in AllOps :
        (pc[o] \in {"done", "not_ready"}
           /\ closeFailed[o] = [page |-> FALSE, context |-> FALSE]
           /\ closeCalls[o].page = IF page[o] = "none" THEN 0 ELSE 1) =>
            /\ status[o].code \in {404, 503} =>
                   (exitPath[o] = "not_ready" \/ result[o].val = PyNone)
            /\ result[o].val # PyNone =>
                   status[o] = [code |-> 200, body |-> result[o].val]

\* C16: every listener invocation that goes on to extraction is for a POST
\* response whose URL contains the fragment as a literal substring; the
\* delivery of any other response starts no extraction and leaves the slot
\* and the signal as they were; and slot and signal change only in a step
\* of an invocation for a matching response.
C16_NonMatchingNoEffect ==
    /\ [](\A o \in AllOps : \A i \in 1..Len(handlers[o]) : handlers[o][i].m)
    /\ [][\A p \in AllOps :
            nresp'[p] # nresp[p] =>
                /\ holder' = holder /\ event' = event /\ signalSrc' = signalSrc
                /\ \A o \in AllOps :
                     handlers'[o] # handlers[o] =>
                         /\ Len(handlers'[o]) = Len(handlers[o]) + 1
                         /\ handlers'[o][Len(handlers'[o])].m]_vars
    /\ [][\A o \in AllOps :
            (holder'[o] # holder[o] \/ event'[o] # event[o]) =>
                \E i \in Matching(o) : handlers'[o][i].pc # handlers[o][i].pc]_vars

C16_Witness ==
    \E o \in AllOps :
        /\ pc[o] = "wait"
        /\ Len(handlers[o]) = 1 /\ nresp[o] = 2
        /\ handlers[o][1].src.rid = 1 /\ handlers[o][1].pc = "done_json"
        /\ holder[o].src = handlers[o][1].src
        /\ event[o]

\* The phases of the specification's state machine, numbered along the
\* chain; the context, the page and the listener are all obtained by the
\* step that starts the navigation, so SessionAcquired is passed within it.
PhaseRank(at) ==
    CASE at \in {"idle", "new_context", "new_page"} -> 0
      [] at \in {"goto", "settle"} -> 2
      [] at = "wait" -> 3
      [] OTHER -> 4

\* C17 (as stated): a call changes phase only along the chain: from Init
\* through SessionAcquired to Navigating, from Navigating to AwaitingCapture
\* or (fatal navigation error) to Done, from AwaitingCapture to Done.
C17_OnlyAlongChain ==
    [][\A o \in AllOps :
         PhaseRank(pc'[o]) # PhaseRank(pc[o]) =>
             \/ PhaseRank(pc[o]) = 0 /\ PhaseRank(pc'[o]) = 2
             \/ PhaseRank(pc[o]) = 2 /\ PhaseRank(pc'[o]) = 3
             \/ PhaseRank(pc[o]) = 2 /\ PhaseRank(pc'[o]) = 4 /\ navOutcome'[o] = "error"
             \/ PhaseRank(pc[o]) = 3 /\ PhaseRank(pc'[o]) = 4]_vars

\* C17 (amended): phases are never re-entered; Init is left either to
\* Navigating, with context, page and listener in place, or straight to Done
\* when the browser is not initialised or the acquisition fails; Navigating is
\* left to AwaitingCapture, or to Done on a fatal navigation error only;
\* AwaitingCapture is left to Done with the signal set or the deadline over.
C17_PhaseOrder ==
    /\ [](\A o \in AllOps :
            pc[o] \in {"goto", "settle", "wait"} =>
                (o \in listeners[o] /\ context[o] = "open" /\ page[o] # "none"))
    /\ [][\A o \in AllOps :
            /\ PhaseRank(pc'[o]) >= PhaseRank(pc[o])
            /\ PhaseRank(pc'[o]) # PhaseRank(pc[o]) =>
                 \/ /\ PhaseRank(pc[o]) = 0 /\ PhaseRank(pc'[o]) = 2
                    /\ pc'[o] = "goto" /\ o \in listeners'[o] /\ nresp'[o] = 0
                 \/ /\ PhaseRank(pc[o]) = 0 /\ PhaseRank(pc'[o]) = 4
                    /\ exitPath'[o] \in {"not_ready", "unexpected"}
                    /\ o \notin listeners'[o]
                 \/ /\ PhaseRank(pc[o]) = 2 /\ PhaseRank(pc'[o]) = 3
                    /\ navOutcome'[o] \in {"ok", "timeout"}
                 \/ /\ PhaseRank(pc[o]) = 2 /\ PhaseRank(pc'[o]) = 4
                    /\ navOutcome'[o] = "error" /\ exitPath'[o] = "nav_fatal"
                 \/ /\ PhaseRank(pc[o]) = 3 /\ PhaseRank(pc'[o]) = 4
                    /\ (event[o] \/ exitPath'[o] = "deadline")
                    /\ ThroughWait(o)']_vars

C17_Witness ==
    \E o \in AllOps :
        /\ pc[o] = "done" /\ exitPath[o] = "unexpected"
        /\ context[o] = "closed" /\ page[o] = "none"
        /\ navOutcome[o] = "none"

\* C18 (as stated): once an invocation has finished its extraction with a
\* payload of any variant, the signal is set.
C18_SignalAfterEveryExtraction ==
    \A o \in AllOps : \A i \in 1..Len(handlers[o]) :
        handlers[o][i].pc \in HandlerDone => event[o]

\* C18 (amended): the signal is set exactly when some invocation has stored
\* a parsed value; an invocation that ends with an error payload stores it
\* without signalling, and a call with no parsed value leaves the capture
\* wait by the deadline, returning what the slot holds.
C18_SignalOnlyAfterParsed ==
    /\ [](\A o \in AllOps :
            event[o] <=> \E i \in 1..Len(handlers[o]) : handlers[o][i].pc = "done_json")
    /\ [][\A o \in AllOps :
            (LeavesWait(o) /\ \A i \in 1..Len(handlers[o]) : handlers[o][i].pc # "done_json")
                => /\ exitPath'[o] = "deadline"
                   /\ result'[o] = [val |-> holder[o].data, src |-> holder[o].src]]_vars

C18_Witness ==
    \E o \in AllOps :
        /\ pc[o] = "done" /\ exitPath[o] = "deadline"
        /\ Len(handlers[o]) = 1 /\ handlers[o][1].pc = "done_raw"
        /\ ~event[o]
        /\ result[o].val = RawPayload(handlers[o][1].body)

\* C19: when the first matching response failed parsing and the second one
\* has parsed by the time the call leaves the capture wait, the call returns
\* the second response's parsed value.
C19_LaterSuccessWins ==
    [][\A o \in AllOps :
         (/\ LeavesWait(o)
          /\ Len(handlers[o]) = 2
          /\ handlers[o][1].pc \in {"text", "headers", "done_raw", "done_text_error",
                                    "done_headers_error"}
          /\ handlers[o][2].pc = "done_json")
             => result'[o].val = JsonLoads(handlers[o][2].body).val]_vars

\* C20: once the call has read the value it returns, no later delivery and
\* no extraction completing later changes that value, and the endpoint
\* answers from it, not from the slot.
C20_LateEventsNotObserved ==
    /\ [][\A o \in AllOps :
            exitPath[o] # "none" =>
                /\ result'[o] = result[o] /\ exitPath'[o] = exitPath[o]
                /\ status[o].code # 0 => status'[o] = status[o]]_vars
    /\ [](\A o \in AllOps :
            status[o].code = 200 => (pc[o] = "done" /\ status[o].body = result[o].val))

C20_Witness ==
    \E o \in AllOps :
        /\ pc[o] = "done" /\ ThroughWait(o)
        /\ holder[o].src # result[o].src
        /\ holder[o].data # result[o].val
        /\ status[o].code = 200

\* One scrape operation whose awaits all complete.
FairSpec ==
    /\ Spec
    /\ \A o \in OpsSingle :
         /\ WF_vars(NewContextDone(o)) /\ WF_vars(NewPageDone(o))
         /\ WF_vars(GotoDone(o, NavOutcomes)) /\ WF_vars(SettleDone(o, NavOutcomes))
         /\ WF_vars(WaitDone(o))
         /\ WF_vars(PageCloseDone(o)) /\ WF_vars(ContextCloseDone(o))

====
